---- MODULE Spec2Model ----
(***************************************************************************)
(* Model of get_structured_data_with_gemini (src/gemini_utils.py): the     *)
(* preflight checks, the retry loop around model.generate_content, the     *)
(* cleaning of the response text, json.loads, the key fallback, the        *)
(* construction of ParsedDARReport and the classification of raised        *)
(* errors.                                                                 *)
(*                                                                         *)
(* A Python str is a sequence of characters; a character is a one-letter   *)
(* TLA+ string, except the back-tick, which is written BT.                 *)
(***************************************************************************)
EXTENDS Integers, Sequences, FiniteSets, TLC

\* ------------------------------------------------------------------ bounds
\* max_retries ranges over -1..MaxRetries.
MaxRetries == 2

\* A text given to the cleaning alone has at most MaxPieces pieces between its
\* markers.
MaxPieces == 3

\* ------------------------------------------------------- program constants
MinTextLen == 50
ErrTruncLen == 200
QuotaWait == 30
ResourceWait == 60
BackoffBase == 5
BackoffStep == 2

\* ------------------------------------------------------------ str helpers
BT == "<backtick>"

Whitespace == {" ", "\n", "\t", "\r"}

LowerLetters == <<"a", "b", "c", "d", "e", "f", "g", "h", "i", "j", "k", "l", "m", "n", "o", "p", "q", "r", "s", "t", "u", "v", "w", "x", "y", "z">>

UpperLetters == <<"A", "B", "C", "D", "E", "F", "G", "H", "I", "J", "K", "L", "M", "N", "O", "P", "Q", "R", "S", "T", "U", "V", "W", "X", "Y", "Z">>

Min(S) == CHOOSE m \in S : \A n \in S : m <= n

Max(S) == CHOOSE m \in S : \A n \in S : m >= n

Rep(c, n) == [i \in 1..n |-> c]

\* s[:n]
Prefix(s, n) == SubSeq(s, 1, Min({n, Len(s)}))

\* s[n:]
DropFirst(s, n) == SubSeq(s, n + 1, Len(s))

\* s[:-n]
DropLast(s, n) == SubSeq(s, 1, Len(s) - n)

\* s.startswith(p)
startswith(s, p) == Len(s) >= Len(p) /\ SubSeq(s, 1, Len(p)) = p

\* s.endswith(p)
endswith(s, p) == Len(s) >= Len(p) /\ SubSeq(s, Len(s) - Len(p) + 1, Len(s)) = p

\* s.strip()
strip(s) ==
    LET keep == {i \in 1..Len(s) : s[i] \notin Whitespace}
    IN  IF keep = {} THEN <<>> ELSE SubSeq(s, Min(keep), Max(keep))

LowerChar(c) ==
    IF \E i \in 1..26 : UpperLetters[i] = c
    THEN LowerLetters[CHOOSE i \in 1..26 : UpperLetters[i] = c]
    ELSE c

UpperChar(c) ==
    IF \E i \in 1..26 : LowerLetters[i] = c
    THEN UpperLetters[CHOOSE i \in 1..26 : LowerLetters[i] = c]
    ELSE c

\* s.lower()
lower(s) == [i \in 1..Len(s) |-> LowerChar(s[i])]

\* s.upper()
upper(s) == [i \in 1..Len(s) |-> UpperChar(s[i])]

\* p in s
contains(s, p) == \E i \in 0..(Len(s) - Len(p)) : SubSeq(s, i + 1, i + Len(p)) = p

\* ------------------------------------------------------------- the record
\* Optional[str]: None, or a str.
None == [null |-> TRUE, s |-> <<>>]

Some(s) == [null |-> FALSE, s |-> s]

\* A JSON value as json.loads returns it.
JNull == [t |-> "null", s |-> <<>>, items |-> <<>>, obj |-> <<>>]

JBool(b) == [t |-> "bool", s |-> <<b>>, items |-> <<>>, obj |-> <<>>]

JNum(digits) == [t |-> "num", s |-> digits, items |-> <<>>, obj |-> <<>>]

JStr(s) == [t |-> "str", s |-> s, items |-> <<>>, obj |-> <<>>]

JArr(items) == [t |-> "arr", s |-> <<>>, items |-> items, obj |-> <<>>]

\* obj is a function from the keys (strs) to the values.
JObj(obj) == [t |-> "obj", s |-> <<>>, items |-> <<>>, obj |-> obj]

EmptyDict == JObj(<<>>)

\* ---------------------------------------------------------------- inputs
PDF_ERROR_PREFIX == <<"E", "r", "r", "o", "r", " ", "p", "r", "o", "c", "e", "s", "s", "i", "n", "g", " ", "P", "D", "F", " ", "w", "i", "t", "h", " ", "p", "d", "f", "p", "l", "u", "m", "b", "e", "r", ":">>

PREPROCESS_ERROR_PREFIX == <<"E", "r", "r", "o", "r", " ", "i", "n", " ", "p", "r", "e", "p", "r", "o", "c", "e", "s", "s", "_", "p", "d", "f", "_", "t", "e", "x", "t", "_">>

ApiKeys == {"", "YOUR_API_KEY_HERE", "YOUR_API_KEY_HERE_FALLBACK", "AIzaSyA-valid-key"}

\* Bodies of text_content: empty, one below and at the minimum length, and the
\* two upstream error texts, short and long, alone and after other text.
TextBodies ==
    { <<>>,
      Rep("x", MinTextLen - 1),
      Rep("x", MinTextLen),
      PDF_ERROR_PREFIX,
      PDF_ERROR_PREFIX \o Rep("x", MinTextLen),
      PREPROCESS_ERROR_PREFIX \o <<"1">>,
      PREPROCESS_ERROR_PREFIX \o Rep("x", MinTextLen),
      lower(PDF_ERROR_PREFIX) \o Rep("x", MinTextLen) }

TextContents ==
    TextBodies
        \cup { <<" ">> \o Rep("x", MinTextLen - 1) \o <<"\n">>,
               Rep(" ", MinTextLen),
               <<" ">> \o PDF_ERROR_PREFIX \o Rep("x", MinTextLen) }

RetryBudgets == -1..MaxRetries

\* ------------------------------------------------- cleaning the response
FENCE_JSON == <<BT, BT, BT, "j", "s", "o", "n">>

FENCE == <<BT, BT, BT>>

TICK_JSON == <<BT, "j", "s", "o", "n">>

TICK == <<BT>>

\* The prefix removal of lines 184-195.
RemovePrefix(c) ==
    IF startswith(c, FENCE_JSON) THEN DropFirst(c, 7)
    ELSE IF startswith(c, FENCE) THEN DropFirst(c, 3)
    ELSE IF startswith(c, TICK_JSON) THEN DropFirst(c, 5)
    ELSE IF startswith(c, TICK) THEN DropFirst(c, 1)
    ELSE c

\* The suffix removal with its second test dropped: a text that does not end
\* in the fence loses its last character.
RemoveSuffixUnguarded(c) ==
    IF endswith(c, FENCE) THEN DropLast(c, 3) ELSE DropLast(c, 1)

\* The suffix removal of lines 197-202.
RemoveSuffix(c) ==
    IF endswith(c, FENCE) THEN DropLast(c, 3)
    ELSE IF endswith(c, TICK) THEN DropLast(c, 1)
    ELSE c

\* cleaned_response_text as line 204 reads it.
CleanResponseText(text) == RemoveSuffix(RemovePrefix(strip(text)))

\* The pieces one after the other.
RECURSIVE Concat(_)
Concat(pieces) ==
    IF pieces = <<>> THEN <<>> ELSE Head(pieces) \o Concat(Tail(pieces))

\* The response texts the cleaning is examined on: optional white space, an
\* optional opening marker, up to MaxPieces pieces of white space, JSON text,
\* the word json and back-ticks, an optional closing marker, optional white
\* space.
RawTexts ==
    LET Padding == {<<>>, <<" ">>, <<"\n">>}
        Opening == {<<>>, FENCE_JSON, FENCE, TICK_JSON, TICK}
        Closing == {<<>>, FENCE, TICK}
        Pieces == {<<"\n">>, <<" ">>, <<"{", "}">>, <<"j", "s", "o", "n">>, TICK}
        Inner == {Concat(ps) : ps \in UNION {[1..n -> Pieces] : n \in 0..MaxPieces}}
    IN  {lead \o open \o inner \o close \o trail :
            lead \in Padding, open \in Opening, inner \in Inner,
            close \in Closing, trail \in Padding}

\* --------------------------------------------------------------- json.loads
\* The grammar json.loads accepts, without string escapes, exponents and the
\* NaN/Infinity literals, which no response of ResponseTexts uses.
Digits == {"0", "1", "2", "3", "4", "5", "6", "7", "8", "9"}

LIT_NULL == <<"n", "u", "l", "l">>

LIT_TRUE == <<"t", "r", "u", "e">>

LIT_FALSE == <<"f", "a", "l", "s", "e">>

ParseFail == [ok |-> FALSE, v |-> JNull, next |-> 0]

ParseOk(v, next) == [ok |-> TRUE, v |-> v, next |-> next]

\* The first index from i on that holds no JSON whitespace.
SkipWs(s, i) == Min({j \in i..(Len(s) + 1) : j = Len(s) + 1 \/ s[j] \notin Whitespace})

At(s, i, c) == i <= Len(s) /\ s[i] = c

LitAt(s, i, lit) == i + Len(lit) - 1 <= Len(s) /\ SubSeq(s, i, i + Len(lit) - 1) = lit

\* The first index from i on that holds no digit.
SkipDigits(s, i) == Min({j \in i..(Len(s) + 1) : j = Len(s) + 1 \/ s[j] \notin Digits})

\* s[i] is the opening quote.
ParseString(s, i) ==
    LET closing == {j \in (i + 1)..Len(s) : s[j] = "\""}
    IN  IF closing = {} THEN ParseFail
        ELSE LET j == Min(closing)
                 body == SubSeq(s, i + 1, j - 1)
             IN  IF \E k \in 1..Len(body) : body[k] \in {"\n", "\t", "\r"}
                 THEN ParseFail
                 ELSE ParseOk(JStr(body), j + 1)

\* -?(0|[1-9][0-9]*)(\.[0-9]+)?
ParseNumber(s, i) ==
    LET d == IF At(s, i, "-") THEN i + 1 ELSE i
        intEnd == IF At(s, d, "0") THEN d + 1 ELSE SkipDigits(s, d)
        fracEnd == IF At(s, intEnd, ".") /\ SkipDigits(s, intEnd + 1) > intEnd + 1
                   THEN SkipDigits(s, intEnd + 1)
                   ELSE intEnd
    IN  IF intEnd = d THEN ParseFail
        ELSE ParseOk(JNum(SubSeq(s, i, fracEnd - 1)), fracEnd)

RECURSIVE ParseValue(_, _), ParseMembers(_, _, _), ParseElements(_, _, _)

\* One JSON value starting at s[i].
ParseValue(s, i) ==
    IF i > Len(s) THEN ParseFail
    ELSE IF s[i] = "\"" THEN ParseString(s, i)
    ELSE IF s[i] = "{" THEN
        LET j == SkipWs(s, i + 1)
        IN  IF At(s, j, "}") THEN ParseOk(EmptyDict, j + 1) ELSE ParseMembers(s, j, <<>>)
    ELSE IF s[i] = "[" THEN
        LET j == SkipWs(s, i + 1)
        IN  IF At(s, j, "]") THEN ParseOk(JArr(<<>>), j + 1) ELSE ParseElements(s, j, <<>>)
    ELSE IF LitAt(s, i, LIT_NULL) THEN ParseOk(JNull, i + 4)
    ELSE IF LitAt(s, i, LIT_TRUE) THEN ParseOk(JBool("true"), i + 4)
    ELSE IF LitAt(s, i, LIT_FALSE) THEN ParseOk(JBool("false"), i + 5)
    ELSE ParseNumber(s, i)

\* The members of an object from s[i] on; a later key replaces an earlier one.
ParseMembers(s, i, acc) ==
    IF ~At(s, i, "\"") THEN ParseFail
    ELSE LET k == ParseString(s, i)
         IN  IF ~k.ok THEN ParseFail
             ELSE LET c == SkipWs(s, k.next)
                  IN  IF ~At(s, c, ":") THEN ParseFail
                      ELSE LET v == ParseValue(s, SkipWs(s, c + 1))
                           IN  IF ~v.ok THEN ParseFail
                               ELSE LET e == SkipWs(s, v.next)
                                        acc2 == (k.v.s :> v.v) @@ acc
                                    IN  IF At(s, e, "}") THEN ParseOk(JObj(acc2), e + 1)
                                        ELSE IF At(s, e, ",")
                                             THEN ParseMembers(s, SkipWs(s, e + 1), acc2)
                                             ELSE ParseFail

\* The elements of an array from s[i] on.
ParseElements(s, i, acc) ==
    LET v == ParseValue(s, i)
    IN  IF ~v.ok THEN ParseFail
        ELSE LET e == SkipWs(s, v.next)
                 acc2 == Append(acc, v.v)
             IN  IF At(s, e, "]") THEN ParseOk(JArr(acc2), e + 1)
                 ELSE IF At(s, e, ",") THEN ParseElements(s, SkipWs(s, e + 1), acc2)
                 ELSE ParseFail

\* The whole of s as one JSON value between optional whitespace.
ParseDocument(s) ==
    LET r == ParseValue(s, SkipWs(s, 1))
    IN  IF r.ok /\ SkipWs(s, r.next) = Len(s) + 1 THEN r ELSE ParseFail

\* ------------------------------------------------------ literals of the code
\* header
KEY_HEADER == <<"h", "e", "a", "d", "e", "r">>

\* audit_paras
KEY_AUDIT_PARAS == <<"a", "u", "d", "i", "t", "_", "p", "a", "r", "a", "s">>

\* parsing_errors
KEY_PARSING_ERRORS == <<"p", "a", "r", "s", "i", "n", "g", "_", "e", "r", "r", "o", "r", "s">>

\* quota
KW_QUOTA == <<"q", "u", "o", "t", "a">>

\* rate
KW_RATE == <<"r", "a", "t", "e">>

\* billing
KW_BILLING == <<"b", "i", "l", "l", "i", "n", "g">>

\* API_KEY
KW_API_KEY == <<"A", "P", "I", "_", "K", "E", "Y">>

\* auth
KW_AUTH == <<"a", "u", "t", "h">>

\* RESOURCE_EXHAUSTED
KW_RESOURCE_EXHAUSTED == <<"R", "E", "S", "O", "U", "R", "C", "E", "_", "E", "X", "H", "A", "U", "S", "T", "E", "D">>

\* None
STR_NONE == <<"N", "o", "n", "e">>

\* The texts of the exceptions Python, json and the library raise.
ErrMsg ==
    [
      \* argument of type 'int' is not iterable
      NOT_ITERABLE_INT |->
          <<"a", "r", "g", "u", "m", "e", "n", "t", " ", "o", "f", " ", "t", "y", "p", "e", " ", "'", "i", "n", "t", "'", " ", "i", "s", " ", "n", "o", "t", " ", "i", "t", "e", "r", "a", "b", "l", "e">>,
      \* argument of type 'float' is not iterable
      NOT_ITERABLE_FLOAT |->
          <<"a", "r", "g", "u", "m", "e", "n", "t", " ", "o", "f", " ", "t", "y", "p", "e", " ", "'", "f", "l", "o", "a", "t", "'", " ", "i", "s", " ", "n", "o", "t", " ", "i", "t", "e", "r", "a", "b", "l", "e">>,
      \* argument of type 'bool' is not iterable
      NOT_ITERABLE_BOOL |->
          <<"a", "r", "g", "u", "m", "e", "n", "t", " ", "o", "f", " ", "t", "y", "p", "e", " ", "'", "b", "o", "o", "l", "'", " ", "i", "s", " ", "n", "o", "t", " ", "i", "t", "e", "r", "a", "b", "l", "e">>,
      \* argument of type 'NoneType' is not iterable
      NOT_ITERABLE_NONE |->
          <<"a", "r", "g", "u", "m", "e", "n", "t", " ", "o", "f", " ", "t", "y", "p", "e", " ", "'", "N", "o", "n", "e", "T", "y", "p", "e", "'", " ", "i", "s", " ", "n", "o", "t", " ", "i", "t", "e", "r", "a", "b", "l", "e">>,
      \* list indices must be integers or slices, not str
      LIST_INDICES |->
          <<"l", "i", "s", "t", " ", "i", "n", "d", "i", "c", "e", "s", " ", "m", "u", "s", "t", " ", "b", "e", " ", "i", "n", "t", "e", "g", "e", "r", "s", " ", "o", "r", " ", "s", "l", "i", "c", "e", "s", ",", " ", "n", "o", "t", " ", "s", "t", "r">>,
      \* 'str' object does not support item assignment
      STR_ASSIGN |->
          <<"'", "s", "t", "r", "'", " ", "o", "b", "j", "e", "c", "t", " ", "d", "o", "e", "s", " ", "n", "o", "t", " ", "s", "u", "p", "p", "o", "r", "t", " ", "i", "t", "e", "m", " ", "a", "s", "s", "i", "g", "n", "m", "e", "n", "t">>,
      \* Expecting value: line 1 column 1 (char 0)
      JSON_DECODE |->
          <<"E", "x", "p", "e", "c", "t", "i", "n", "g", " ", "v", "a", "l", "u", "e", ":", " ", "l", "i", "n", "e", " ", "1", " ", "c", "o", "l", "u", "m", "n", " ", "1", " ", "(", "c", "h", "a", "r", " ", "0", ")">>,
      \* argument after ** must be a mapping
      NOT_MAPPING |->
          <<"a", "r", "g", "u", "m", "e", "n", "t", " ", "a", "f", "t", "e", "r", " ", "*", "*", " ", "m", "u", "s", "t", " ", "b", "e", " ", "a", " ", "m", "a", "p", "p", "i", "n", "g">>,
      \* validation error for ParsedDARReport
      VALIDATION |->
          <<"v", "a", "l", "i", "d", "a", "t", "i", "o", "n", " ", "e", "r", "r", "o", "r", " ", "f", "o", "r", " ", "P", "a", "r", "s", "e", "d", "D", "A", "R", "R", "e", "p", "o", "r", "t">>,
      \* No module named 'google'
      NO_MODULE |->
          <<"N", "o", " ", "m", "o", "d", "u", "l", "e", " ", "n", "a", "m", "e", "d", " ", "'", "g", "o", "o", "g", "l", "e", "'">>,
      \* could not create the model
      INIT_FAILED |->
          <<"c", "o", "u", "l", "d", " ", "n", "o", "t", " ", "c", "r", "e", "a", "t", "e", " ", "t", "h", "e", " ", "m", "o", "d", "e", "l">>,
      \* response.text requires a valid Part
      BLOCKED |->
          <<"r", "e", "s", "p", "o", "n", "s", "e", ".", "t", "e", "x", "t", " ", "r", "e", "q", "u", "i", "r", "e", "s", " ", "a", " ", "v", "a", "l", "i", "d", " ", "P", "a", "r", "t">> ]

\* ------------------------------------------------ what the model can answer
\* (in the comments of this section ' stands for the back-tick)
\* The texts of the responses of the model.
Reply ==
    [
      \*  \n
      BLANK |->
          <<" ", "\n">>,
      \* '''json'''
      FENCE_ONLY |->
          <<BT, BT, BT, "j", "s", "o", "n", BT, BT, BT>>,
      \* '''json\n'''
      FENCE_NEWLINE |->
          <<BT, BT, BT, "j", "s", "o", "n", "\n", BT, BT, BT>>,
      \* not json
      NOT_JSON |->
          <<"n", "o", "t", " ", "j", "s", "o", "n">>,
      \* {"header":{"trade_name":"Acme"},"audit_paras":[]}
      OK |->
          <<"{", "\"", "h", "e", "a", "d", "e", "r", "\"", ":", "{", "\"", "t", "r", "a", "d", "e", "_", "n", "a", "m", "e", "\"", ":", "\"", "A", "c", "m", "e", "\"", "}", ",", "\"", "a", "u", "d", "i", "t", "_", "p", "a", "r", "a", "s", "\"", ":", "[", "]", "}">>,
      \* '''json\n{"header":{"trade_name":"Acme"},"audit_paras":[]}\n'''
      OK_FENCED |->
          <<BT, BT, BT, "j", "s", "o", "n", "\n", "{", "\"", "h", "e", "a", "d", "e", "r", "\"", ":", "{", "\"", "t", "r", "a", "d", "e", "_", "n", "a", "m", "e", "\"", ":", "\"", "A", "c", "m", "e", "\"", "}", ",", "\"", "a", "u", "d", "i", "t", "_", "p", "a", "r", "a", "s", "\"", ":", "[", "]", "}", "\n", BT, BT, BT>>,
      \* '{"header":{},"audit_paras":[{"audit_para_number":1}]}'
      OK_TICKED |->
          <<BT, "{", "\"", "h", "e", "a", "d", "e", "r", "\"", ":", "{", "}", ",", "\"", "a", "u", "d", "i", "t", "_", "p", "a", "r", "a", "s", "\"", ":", "[", "{", "\"", "a", "u", "d", "i", "t", "_", "p", "a", "r", "a", "_", "n", "u", "m", "b", "e", "r", "\"", ":", "1", "}", "]", "}", BT>>,
      \* {"audit_paras":[{"audit_para_number":1}]}
      NO_HEADER |->
          <<"{", "\"", "a", "u", "d", "i", "t", "_", "p", "a", "r", "a", "s", "\"", ":", "[", "{", "\"", "a", "u", "d", "i", "t", "_", "p", "a", "r", "a", "_", "n", "u", "m", "b", "e", "r", "\"", ":", "1", "}", "]", "}">>,
      \* {"header":{"trade_name":"Acme"}}
      NO_PARAS |->
          <<"{", "\"", "h", "e", "a", "d", "e", "r", "\"", ":", "{", "\"", "t", "r", "a", "d", "e", "_", "n", "a", "m", "e", "\"", ":", "\"", "A", "c", "m", "e", "\"", "}", "}">>,
      \* {}
      EMPTY_OBJECT |->
          <<"{", "}">>,
      \* []
      ARRAY |->
          <<"[", "]">>,
      \* 5
      NUMBER |->
          <<"5">>,
      \* null
      NULL |->
          <<"n", "u", "l", "l">>,
      \* "ok"
      STR |->
          <<"\"", "o", "k", "\"">>,
      \* "header audit_paras"
      STR_BOTH_KEYS |->
          <<"\"", "h", "e", "a", "d", "e", "r", " ", "a", "u", "d", "i", "t", "_", "p", "a", "r", "a", "s", "\"">>,
      \* {"header":5,"audit_paras":[]}
      BAD_HEADER |->
          <<"{", "\"", "h", "e", "a", "d", "e", "r", "\"", ":", "5", ",", "\"", "a", "u", "d", "i", "t", "_", "p", "a", "r", "a", "s", "\"", ":", "[", "]", "}">>,
      \* {"header":{"gstin":"G1"},"audit_paras":[7]}
      BAD_PARAS |->
          <<"{", "\"", "h", "e", "a", "d", "e", "r", "\"", ":", "{", "\"", "g", "s", "t", "i", "n", "\"", ":", "\"", "G", "1", "\"", "}", ",", "\"", "a", "u", "d", "i", "t", "_", "p", "a", "r", "a", "s", "\"", ":", "[", "7", "]", "}">>,
      \* {"header":{},"audit_paras":[],"parsing_errors":"unclear"}
      OWN_ERRORS |->
          <<"{", "\"", "h", "e", "a", "d", "e", "r", "\"", ":", "{", "}", ",", "\"", "a", "u", "d", "i", "t", "_", "p", "a", "r", "a", "s", "\"", ":", "[", "]", ",", "\"", "p", "a", "r", "s", "i", "n", "g", "_", "e", "r", "r", "o", "r", "s", "\"", ":", "\"", "u", "n", "c", "l", "e", "a", "r", "\"", "}">>,
      \* {"header":{"trade_name":"Acme"},"audit_paras":[
      TRUNCATED |->
          <<"{", "\"", "h", "e", "a", "d", "e", "r", "\"", ":", "{", "\"", "t", "r", "a", "d", "e", "_", "n", "a", "m", "e", "\"", ":", "\"", "A", "c", "m", "e", "\"", "}", ",", "\"", "a", "u", "d", "i", "t", "_", "p", "a", "r", "a", "s", "\"", ":", "[">>,
      \* {"audit_paras":[7]}
      NO_HEADER_BAD_PARAS |->
          <<"{", "\"", "a", "u", "d", "i", "t", "_", "p", "a", "r", "a", "s", "\"", ":", "[", "7", "]", "}">>,
      \* {"header":{},"parsing_errors":"unclear"}
      NO_PARAS_OWN_ERRORS |->
          <<"{", "\"", "h", "e", "a", "d", "e", "r", "\"", ":", "{", "}", ",", "\"", "p", "a", "r", "s", "i", "n", "g", "_", "e", "r", "r", "o", "r", "s", "\"", ":", "\"", "u", "n", "c", "l", "e", "a", "r", "\"", "}">>,
      \* ["header","audit_paras"]
      ARRAY_BOTH_KEYS |->
          <<"[", "\"", "h", "e", "a", "d", "e", "r", "\"", ",", "\"", "a", "u", "d", "i", "t", "_", "p", "a", "r", "a", "s", "\"", "]">> ]

ResponseTexts == {<<>>} \cup {Reply[k] : k \in DOMAIN Reply}

\* The texts of the errors generate_content raises.
ErrText ==
    [
      \* Billing account disabled
      BILLING |->
          <<"B", "i", "l", "l", "i", "n", "g", " ", "a", "c", "c", "o", "u", "n", "t", " ", "d", "i", "s", "a", "b", "l", "e", "d">>,
      \* Quota exceeded
      QUOTA |->
          <<"Q", "u", "o", "t", "a", " ", "e", "x", "c", "e", "e", "d", "e", "d">>,
      \* rate limit reached
      RATE |->
          <<"r", "a", "t", "e", " ", "l", "i", "m", "i", "t", " ", "r", "e", "a", "c", "h", "e", "d">>,
      \* API_KEY_INVALID
      API_KEY |->
          <<"A", "P", "I", "_", "K", "E", "Y", "_", "I", "N", "V", "A", "L", "I", "D">>,
      \* api_key missing
      API_KEY_LOWER |->
          <<"a", "p", "i", "_", "k", "e", "y", " ", "m", "i", "s", "s", "i", "n", "g">>,
      \* Unauthorized
      AUTH |->
          <<"U", "n", "a", "u", "t", "h", "o", "r", "i", "z", "e", "d">>,
      \* RESOURCE_EXHAUSTED
      RESOURCE |->
          <<"R", "E", "S", "O", "U", "R", "C", "E", "_", "E", "X", "H", "A", "U", "S", "T", "E", "D">>,
      \* resource_exhausted
      RESOURCE_LOWER |->
          <<"r", "e", "s", "o", "u", "r", "c", "e", "_", "e", "x", "h", "a", "u", "s", "t", "e", "d">>,
      \* Deadline exceeded
      TIMEOUT |->
          <<"D", "e", "a", "d", "l", "i", "n", "e", " ", "e", "x", "c", "e", "e", "d", "e", "d">>,
      \* You exceeded your current quota, please check your plan and billing details
      QUOTA_BILLING |->
          <<"Y", "o", "u", " ", "e", "x", "c", "e", "e", "d", "e", "d", " ", "y", "o", "u", "r", " ", "c", "u", "r", "r", "e", "n", "t", " ", "q", "u", "o", "t", "a", ",", " ", "p", "l", "e", "a", "s", "e", " ", "c", "h", "e", "c", "k", " ", "y", "o", "u", "r", " ", "p", "l", "a", "n", " ", "a", "n", "d", " ", "b", "i", "l", "l", "i", "n", "g", " ", "d", "e", "t", "a", "i", "l", "s">>,
      \* billing not enabled, cannot generate content
      BILLING_GENERATE |->
          <<"b", "i", "l", "l", "i", "n", "g", " ", "n", "o", "t", " ", "e", "n", "a", "b", "l", "e", "d", ",", " ", "c", "a", "n", "n", "o", "t", " ", "g", "e", "n", "e", "r", "a", "t", "e", " ", "c", "o", "n", "t", "e", "n", "t">>,
      \* auth failed: billing account closed
      AUTH_BILLING |->
          <<"a", "u", "t", "h", " ", "f", "a", "i", "l", "e", "d", ":", " ", "b", "i", "l", "l", "i", "n", "g", " ", "a", "c", "c", "o", "u", "n", "t", " ", "c", "l", "o", "s", "e", "d">>,
      \* API_KEY rate limited
      AUTH_RATE |->
          <<"A", "P", "I", "_", "K", "E", "Y", " ", "r", "a", "t", "e", " ", "l", "i", "m", "i", "t", "e", "d">>,
      \* RESOURCE_EXHAUSTED: check quota
      RESOURCE_QUOTA |->
          <<"R", "E", "S", "O", "U", "R", "C", "E", "_", "E", "X", "H", "A", "U", "S", "T", "E", "D", ":", " ", "c", "h", "e", "c", "k", " ", "q", "u", "o", "t", "a">>,
      \* RESOURCE_EXHAUSTED in generateContent
      RESOURCE_GENERATE |->
          <<"R", "E", "S", "O", "U", "R", "C", "E", "_", "E", "X", "H", "A", "U", "S", "T", "E", "D", " ", "i", "n", " ", "g", "e", "n", "e", "r", "a", "t", "e", "C", "o", "n", "t", "e", "n", "t">> ]

ErrorTexts == {ErrText[k] : k \in DOMAIN ErrText}

\* An exception: its class name and str(e).
Exc(cls, msg) == [cls |-> cls, msg |-> msg]

NoExc == Exc("None", STR_NONE)

\* What one call of model.generate_content gives: a falsy response, a response
\* with a text, a response whose .text raises, or a raised error.
NoResponse == [t |-> "none", text |-> <<>>, exc |-> NoExc]

TextResponse(text) == [t |-> "text", text |-> text, exc |-> NoExc]

BlockedResponse == [t |-> "blocked", text |-> <<>>, exc |-> Exc("ValueError", ErrMsg.BLOCKED)]

RaisedError(msg) == [t |-> "raise", text |-> <<>>, exc |-> Exc("ApiError", msg)]

ModelOutcomes ==
    {NoResponse, BlockedResponse}
        \cup {TextResponse(x) : x \in ResponseTexts}
        \cup {RaisedError(m) : m \in ErrorTexts}

\* The cleaning of every response text of a call, computed once.
CleanedTexts == [t \in ResponseTexts |-> CleanResponseText(t)]

\* Lines 178-202 on response.text.
Cleaned(text) ==
    IF text \in ResponseTexts THEN CleanedTexts[text] ELSE CleanResponseText(text)

\* The parse of every cleaned response text, computed once.
ParsedTexts == [s \in {CleanResponseText(t) : t \in ResponseTexts} |-> ParseDocument(s)]

\* json.loads(s): ok is FALSE where it raises json.JSONDecodeError.
json_loads(s) == IF s \in DOMAIN ParsedTexts THEN ParsedTexts[s] ELSE ParseDocument(s)

\* What importing and configuring the library gives.
InitOutcomes == {NoExc, Exc("ImportError", ErrMsg.NO_MODULE), Exc("RuntimeError", ErrMsg.INIT_FAILED)}

\* ------------------------------------------------------------ the result
\* ParsedDARReport(header=..., audit_paras=..., parsing_errors=...); header
\* JNull is the default None.
ParsedDARReport(header, audit_paras, parsing_errors) ==
    [header |-> header, audit_paras |-> audit_paras, parsing_errors |-> parsing_errors]

\* ParsedDARReport(parsing_errors=msg)
ErrorReport(msg) == ParsedDARReport(JNull, <<>>, Some(msg))

NoResult == ParsedDARReport(JNull, <<>>, None)

IsScalar(v) == v.t \in {"null", "bool", "num", "str"}

ScalarFields(v) == v.t = "obj" /\ \A k \in DOMAIN v.obj : IsScalar(v.obj[k])

Field(obj, key, default) == IF key \in DOMAIN obj THEN obj[key] ELSE default

\* Whether ParsedDARReport(**json_data) accepts the fields of the dict.
FieldsValid(obj) ==
    LET h == Field(obj, KEY_HEADER, JNull)
        a == Field(obj, KEY_AUDIT_PARAS, JArr(<<>>))
        e == Field(obj, KEY_PARSING_ERRORS, JNull)
    IN  /\ h.t = "null" \/ ScalarFields(h)
        /\ a.t = "arr" /\ \A i \in 1..Len(a.items) : ScalarFields(a.items[i])
        /\ e.t \in {"null", "str"}

\* ParsedDARReport(**json_data) for a dict it accepts.
ReportFromDict(obj) ==
    LET e == Field(obj, KEY_PARSING_ERRORS, JNull)
    IN  ParsedDARReport(Field(obj, KEY_HEADER, JNull),
                        Field(obj, KEY_AUDIT_PARAS, JArr(<<>>)).items,
                        IF e.t = "str" THEN Some(e.s) ELSE None)

\* ------------------------------------------------------------- messages
\* An f-string is the sequence of its literal pieces and formatted values.
MsgNoKey == <<"Gemini API Key not configured.">>

MsgImportFailed(e) == <<"Failed to import Gemini library: ">> \o e.msg

MsgInitFailed(e) == <<"Failed to initialize Gemini: ">> \o e.msg

MsgTooShort == <<"Text content too short or empty for analysis.">>

MsgNoResponse(attempt_n) ==
    <<"Gemini returned no response on attempt ", ToString(attempt_n),
      ". This might be due to free tier rate limits.">>

MsgEmptyText(attempt_n) ==
    <<"Gemini returned empty response.text on attempt ", ToString(attempt_n),
      ". This might be due to free tier rate limits.">>

MsgEmptyAfterClean(attempt_n) ==
    <<"Gemini response was empty after cleaning on attempt ", ToString(attempt_n), ".">>

MsgInvalidJson(attempt_n, e) ==
    <<"Invalid JSON from Gemini (Attempt ", ToString(attempt_n), "): ">>
        \o Prefix(e.msg, ErrTruncLen) \o <<"...">>

MsgMissingKeys(attempt_n) ==
    <<"Gemini response missing required keys (Attempt ", ToString(attempt_n),
      "). Using fallback structure.">>

MsgValidation(attempt_n, e) ==
    <<"Data validation error (Attempt ", ToString(attempt_n), "): ">>
        \o Prefix(e.msg, ErrTruncLen) \o <<"...">>

MsgApiError(attempt_n, e) ==
    <<"API Error (Attempt ", ToString(attempt_n), "): ", e.cls, " - ">>
        \o Prefix(e.msg, ErrTruncLen) \o <<"...">>

MsgQuota(attempt_n) ==
    <<"Free tier quota/rate limit exceeded (Attempt ", ToString(attempt_n),
      "). Please wait and try again.">>

MsgBilling ==
    <<"Billing issue detected. For free tier, ensure you have a valid Google account and the API key is generated correctly.">>

MsgAuth ==
    <<"Authentication error. Please check your API key is valid and generated from Google AI Studio.">>

MsgResource(attempt_n) ==
    <<"Resource exhausted (Attempt ", ToString(attempt_n),
      "). Free tier limits reached. Please wait and try again.">>

MsgFinal(retries, last) ==
    <<"Gemini API failed after ", ToString(retries + 1), " attempts. Last error: ">>
        \o Prefix(last.msg, ErrTruncLen)
        \o <<"... Try again in a few minutes (free tier rate limits).">>

\* ------------------------------------------------------- one attempt's end
\* How a piece of the loop body ends: it returns a report, it goes to
\* time.sleep(wait) and continue, or it raises.  last is the exception it
\* assigned to last_exception, KeepLast if none; kind names the branch taken.
KeepLast == Exc("<unchanged>", <<>>)

Return(report, last, kind) ==
    [act |-> "return", result |-> report, wait |-> 0, exc |-> NoExc, last |-> last, kind |-> kind]

SleepThenContinue(wait, last, kind) ==
    [act |-> "sleep", result |-> NoResult, wait |-> wait, exc |-> NoExc, last |-> last, kind |-> kind]

Raise(e) ==
    [act |-> "raise", result |-> NoResult, wait |-> 0, exc |-> e, last |-> KeepLast, kind |-> "Raised"]

\* The give-up test as the transition rule words it, attempt > max_retries + 1:
\* one more attempt than the loop allows.
RetriesExhaustedLate(attempt_n, retries) == attempt_n > retries + 1

\* The give-up test one attempt early.
RetriesExhaustedEarly(attempt_n, retries) == attempt_n >= retries

\* if attempt > max_retries
RetriesExhausted(attempt_n, retries) == attempt_n > retries

\* A failed attempt that always sleeps and continues, leaving the return to
\* the end of the loop.
RetryOrReturnSleepFirst(attempt_n, retries, msg, wait, e, kind) ==
    SleepThenContinue(wait, e, kind)

\* The return of the last attempt without its message: return ParsedDARReport()
RetryOrReturnBare(attempt_n, retries, msg, wait, e, kind) ==
    IF RetriesExhausted(attempt_n, retries)
    THEN Return(NoResult, e, kind)
    ELSE SleepThenContinue(wait, e, kind)

\* last_exception = e; if attempt > max_retries: return ParsedDARReport(
\* parsing_errors=error_message); time.sleep(wait_time); continue
RetryOrReturn(attempt_n, retries, msg, wait, e, kind) ==
    IF RetriesExhausted(attempt_n, retries)
    THEN Return(ErrorReport(msg), e, kind)
    ELSE SleepThenContinue(wait, e, kind)

\* A wait that does not grow with the attempt: wait_time = 5 + 2
BackoffWaitFlat(attempt_n) == BackoffBase + BackoffStep

\* wait_time = 5 + (attempt * 2)
BackoffWait(attempt_n) == BackoffBase + (attempt_n * BackoffStep)

\* wait_time = 5 + attempt
EmptyAfterCleanWait(attempt_n) == BackoffBase + attempt_n

\* A key test that only a dict can pass.
NotInUnlessDict(key, json_data) ==
    IF json_data.t = "obj" THEN key \notin DOMAIN json_data.obj ELSE TRUE

\* "header" not in json_data, for the types on which it does not raise
NotIn(key, json_data) ==
    IF json_data.t = "obj" THEN key \notin DOMAIN json_data.obj
    ELSE IF json_data.t = "arr"
         THEN \A i \in 1..Len(json_data.items) : json_data.items[i] # JStr(key)
         ELSE ~contains(json_data.s, key)

\* The TypeError of "header" not in json_data for a value that is no container.
NotIterableError(json_data) ==
    IF json_data.t = "null" THEN Exc("TypeError", ErrMsg.NOT_ITERABLE_NONE)
    ELSE IF json_data.t = "bool" THEN Exc("TypeError", ErrMsg.NOT_ITERABLE_BOOL)
    ELSE IF contains(json_data.s, <<".">>) THEN Exc("TypeError", ErrMsg.NOT_ITERABLE_FLOAT)
    ELSE Exc("TypeError", ErrMsg.NOT_ITERABLE_INT)

\* The TypeError of json_data["header"] = {} on a list or a str.
ItemAssignmentError(json_data) ==
    IF json_data.t = "arr" THEN Exc("TypeError", ErrMsg.LIST_INDICES)
    ELSE Exc("TypeError", ErrMsg.STR_ASSIGN)

\* A fallback structure that replaces both keys, present or not.
WithFallbackBothReplaced(obj, error_message) ==
    (KEY_PARSING_ERRORS :> JStr(error_message)) @@ (KEY_HEADER :> EmptyDict)
        @@ (KEY_AUDIT_PARAS :> JArr(<<>>)) @@ obj

\* The fallback structure of lines 246-252 for a dict.
WithFallback(obj, error_message) ==
    LET h == IF KEY_HEADER \in DOMAIN obj THEN obj ELSE (KEY_HEADER :> EmptyDict) @@ obj
        a == IF KEY_AUDIT_PARAS \in DOMAIN h THEN h ELSE (KEY_AUDIT_PARAS :> JArr(<<>>)) @@ h
    IN  (KEY_PARSING_ERRORS :> JStr(error_message)) @@ a

\* Lines 254-279: the construction of the report and its except clause, which
\* catches the TypeError of ** on a non-dict too.  kind names a success.
CreateReport(json_data, attempt_n, retries, kind) ==
    IF json_data.t # "obj"
    THEN RetryOrReturn(attempt_n, retries,
                       MsgValidation(attempt_n, Exc("TypeError", ErrMsg.NOT_MAPPING)),
                       BackoffWait(attempt_n), Exc("TypeError", ErrMsg.NOT_MAPPING),
                       "SchemaViolation")
    ELSE IF FieldsValid(json_data.obj)
    THEN Return(ReportFromDict(json_data.obj), KeepLast, kind)
    ELSE RetryOrReturn(attempt_n, retries,
                       MsgValidation(attempt_n, Exc("ValidationError", ErrMsg.VALIDATION)),
                       BackoffWait(attempt_n), Exc("ValidationError", ErrMsg.VALIDATION),
                       "SchemaViolation")

\* A key check without the fallback: a dict lacking a key is a failed
\* attempt.
ValidateStructureStrict(json_data, attempt_n, retries) ==
    IF json_data.t \in {"null", "bool", "num"}
    THEN Raise(NotIterableError(json_data))
    ELSE IF NotIn(KEY_HEADER, json_data) \/ NotIn(KEY_AUDIT_PARAS, json_data)
    THEN IF json_data.t # "obj"
         THEN Raise(ItemAssignmentError(json_data))
         ELSE RetryOrReturn(attempt_n, retries, MsgMissingKeys(attempt_n),
                            BackoffWait(attempt_n),
                            Exc("ValueError", MsgMissingKeys(attempt_n)), "SchemaViolation")
    ELSE CreateReport(json_data, attempt_n, retries, "Success")

\* The key check taken for failed on every dict: the fallback note is set
\* even when both keys are present.
ValidateStructureAlwaysNoted(json_data, attempt_n, retries) ==
    IF json_data.t \in {"null", "bool", "num"}
    THEN Raise(NotIterableError(json_data))
    ELSE IF json_data.t # "obj"
    THEN Raise(ItemAssignmentError(json_data))
    ELSE CreateReport(JObj(WithFallback(json_data.obj, MsgMissingKeys(attempt_n))),
                      attempt_n, retries, "Fallback")

\* Lines 238-279: the key check, the fallback and the construction.
ValidateStructure(json_data, attempt_n, retries) ==
    IF json_data.t \in {"null", "bool", "num"}
    THEN Raise(NotIterableError(json_data))
    ELSE IF NotIn(KEY_HEADER, json_data) \/ NotIn(KEY_AUDIT_PARAS, json_data)
    THEN IF json_data.t # "obj"
         THEN Raise(ItemAssignmentError(json_data))
         ELSE CreateReport(JObj(WithFallback(json_data.obj, MsgMissingKeys(attempt_n))),
                           attempt_n, retries, "Fallback")
    ELSE CreateReport(json_data, attempt_n, retries, "Success")

\* Lines 149-279: the body of the try statement after generate_content
\* returned response.
TryBody(resp, attempt_n, retries) ==
    IF resp.t = "none"
    THEN RetryOrReturn(attempt_n, retries, MsgNoResponse(attempt_n), BackoffWait(attempt_n),
                       Exc("ValueError", MsgNoResponse(attempt_n)), "EmptyResponse")
    ELSE IF resp.t = "blocked" THEN Raise(resp.exc)
    ELSE IF resp.text = <<>>
    THEN RetryOrReturn(attempt_n, retries, MsgEmptyText(attempt_n), BackoffWait(attempt_n),
                       Exc("ValueError", MsgEmptyText(attempt_n)), "EmptyResponse")
    ELSE LET cleaned == CleanResponseText(resp.text)
         IN  IF cleaned = <<>>
             THEN RetryOrReturn(attempt_n, retries, MsgEmptyAfterClean(attempt_n),
                                EmptyAfterCleanWait(attempt_n),
                                Exc("ValueError", MsgEmptyAfterClean(attempt_n)),
                                "EmptyAfterClean")
             ELSE LET parsed == json_loads(cleaned)
                      json_e == Exc("JSONDecodeError", ErrMsg.JSON_DECODE)
                  IN  IF ~parsed.ok
                      THEN RetryOrReturn(attempt_n, retries, MsgInvalidJson(attempt_n, json_e),
                                         BackoffWait(attempt_n), json_e, "InvalidJson")
                      ELSE ValidateStructure(parsed.v, attempt_n, retries)

\* --------------------------------------------------------- raised errors
\* The classes except Exception catches, of those the model raises.
ExceptionClasses == {"ApiError", "ValueError", "TypeError", "RuntimeError", "ImportError"}

\* except google.api_core.exceptions.GoogleAPIError as e: a handler that
\* catches the errors of the call only.
CaughtApiErrorsOnly(e) == e.cls = "ApiError"

\* except Exception as e
CaughtByExceptException(e) == e.cls \in ExceptionClasses

\* The quota test on the text as raised, without lower().
IsQuotaErrorCaseSensitive(e) == contains(e.msg, KW_QUOTA) \/ contains(e.msg, KW_RATE)

\* "quota" in str(e).lower() or "rate" in str(e).lower()
IsQuotaError(e) == contains(lower(e.msg), KW_QUOTA) \/ contains(lower(e.msg), KW_RATE)

\* "billing" in str(e).lower()
IsBillingError(e) == contains(lower(e.msg), KW_BILLING)

\* "API_KEY" in str(e).upper() or "auth" in str(e).lower()
IsAuthError(e) == contains(upper(e.msg), KW_API_KEY) \/ contains(lower(e.msg), KW_AUTH)

\* "RESOURCE_EXHAUSTED" in str(e).upper()
IsResourceError(e) == contains(upper(e.msg), KW_RESOURCE_EXHAUSTED)

\* Lines 281-324: the body of except Exception as e.
ExceptBody(e, attempt_n, retries) ==
    IF IsQuotaError(e)
    THEN RetryOrReturn(attempt_n, retries, MsgQuota(attempt_n), QuotaWait, e, "Quota")
    ELSE IF IsBillingError(e) THEN Return(ErrorReport(MsgBilling), KeepLast, "Billing")
    ELSE IF IsAuthError(e) THEN Return(ErrorReport(MsgAuth), KeepLast, "Auth")
    ELSE IF IsResourceError(e)
    THEN RetryOrReturn(attempt_n, retries, MsgResource(attempt_n), ResourceWait, e, "Resource")
    ELSE RetryOrReturn(attempt_n, retries, MsgApiError(attempt_n, e), BackoffWait(attempt_n),
                       e, "Generic")

\* The attempt numbers and budgets of the calls modelled.
Attempts == 1..(MaxRetries + 1)

\* The exceptions the loop body can raise.
LoopExceptions ==
    {o.exc : o \in {x \in ModelOutcomes : x.t \in {"raise", "blocked"}}}
        \cup {Exc("TypeError", m) : m \in {ErrMsg.NOT_ITERABLE_INT, ErrMsg.NOT_ITERABLE_FLOAT,
                                            ErrMsg.NOT_ITERABLE_BOOL, ErrMsg.NOT_ITERABLE_NONE,
                                            ErrMsg.LIST_INDICES, ErrMsg.STR_ASSIGN}}

\* The responses generate_content can return.
Responses == {x \in ModelOutcomes : x.t # "raise"}

\* TryBody and ExceptBody on every argument of the calls modelled, computed
\* once.
TryBodyTable ==
    [o \in Responses, a \in Attempts, m \in RetryBudgets |-> TryBody(o, a, m)]

ExceptBodyTable ==
    [e \in LoopExceptions, a \in Attempts, m \in RetryBudgets |-> ExceptBody(e, a, m)]

\* How the try body ends for the response.
TryEnd(o, a, m) ==
    IF o \in Responses /\ a \in Attempts /\ m \in RetryBudgets
    THEN TryBodyTable[o, a, m]
    ELSE TryBody(o, a, m)

\* How the except clause ends for the exception.
ExceptEnd(e, a, m) ==
    IF e \in LoopExceptions /\ a \in Attempts /\ m \in RetryBudgets
    THEN ExceptBodyTable[e, a, m]
    ELSE ExceptBody(e, a, m)

\* ------------------------------------------------------------ the call
VARIABLES
    api_key,          \* the arguments
    text_content,
    max_retries,
    pc,               \* where the call is
    genai_api_key,    \* the key genai.configure set in the library
    attempt,
    last_exception,
    response,         \* what generate_content returned
    cleaned_response_text,  \* the response text after lines 178-202
    invocations,      \* the calls of the function running at the same time
    exc,              \* the exception being handled, or the one that escaped
    wait_time,
    calls,            \* calls of generate_content so far
    sleeps,           \* calls of time.sleep so far
    failures,         \* the kind of every failed attempt so far, or "mixed"
    last_kind,        \* how the last finished attempt ended
    result            \* the report returned

vars ==
    <<api_key, text_content, max_retries, pc, genai_api_key, attempt, last_exception,
      response, cleaned_response_text, invocations, exc, wait_time, calls, sleeps, failures,
      last_kind, result>>

Unconfigured == "<unconfigured>"

Init ==
    /\ api_key \in ApiKeys
    /\ text_content \in TextContents
    /\ max_retries \in RetryBudgets
    /\ pc = "validate_key"
    /\ genai_api_key = Unconfigured
    /\ attempt = 0
    /\ last_exception = NoExc
    /\ response = NoResponse
    /\ cleaned_response_text = <<>>
    /\ invocations = <<>>
    /\ exc = NoExc
    /\ wait_time = 0
    /\ calls = 0
    /\ sleeps = 0
    /\ failures = "none"
    /\ last_kind = "none"
    /\ result = NoResult

\* The credential check without the fallback placeholder.
InvalidApiKeyNoFallback(key) == key = "" \/ key = "YOUR_API_KEY_HERE"

\* not api_key or api_key == "YOUR_API_KEY_HERE" or ...
InvalidApiKey(key) ==
    key = "" \/ key = "YOUR_API_KEY_HERE" \/ key = "YOUR_API_KEY_HERE_FALLBACK"

\* The sentinel check with the first prefix only.
IsPdfErrorOnly(text) == startswith(text, PDF_ERROR_PREFIX)

\* text_content.startswith(...) or text_content.startswith(...)
IsPreprocessingError(text) ==
    startswith(text, PDF_ERROR_PREFIX) \/ startswith(text, PREPROCESS_ERROR_PREFIX)

\* The length check on the untrimmed text.
TooShortUntrimmed(text) == text = <<>> \/ Len(text) < MinTextLen

\* not text_content or len(text_content.strip()) < 50
TooShort(text) == text = <<>> \/ Len(strip(text)) < MinTextLen

\* A return that notes the last failed attempt's error in a report that has
\* no parsing_errors of its own.
ReturnReportWithLastError(report) ==
    /\ result' = IF last_exception # NoExc /\ report.parsing_errors = None
                 THEN [report EXCEPT !.parsing_errors = Some(last_exception.msg)]
                 ELSE report
    /\ pc' = "returned"

\* return report
ReturnReport(report) ==
    /\ result' = report
    /\ pc' = "returned"

Inputs == <<api_key, text_content, max_retries>>

\* Lines 29-32.
ValidateApiKey ==
    /\ pc = "validate_key"
    /\ IF InvalidApiKey(api_key)
       THEN ReturnReport(ErrorReport(MsgNoKey))
       ELSE pc' = "check_pdf" /\ UNCHANGED result
    /\ UNCHANGED <<Inputs, invocations, cleaned_response_text, genai_api_key, attempt, last_exception, response, exc,
                   wait_time, calls, sleeps, failures, last_kind>>

\* The length check made before the sentinel check.
CheckPreprocessingErrorAfterLength ==
    /\ pc = "check_pdf"
    /\ IF TooShort(text_content)
       THEN ReturnReport(ErrorReport(MsgTooShort))
       ELSE IF IsPreprocessingError(text_content)
       THEN ReturnReport(ParsedDARReport(JNull, <<>>, Some(text_content)))
       ELSE pc' = "init" /\ UNCHANGED result
    /\ UNCHANGED <<Inputs, invocations, cleaned_response_text, genai_api_key, attempt,
                   last_exception, response, exc, wait_time, calls, sleeps, failures, last_kind>>

\* Lines 34-38.
CheckPreprocessingError ==
    /\ pc = "check_pdf"
    /\ IF IsPreprocessingError(text_content)
       THEN ReturnReport(ParsedDARReport(JNull, <<>>, Some(text_content)))
       ELSE pc' = "init" /\ UNCHANGED result
    /\ UNCHANGED <<Inputs, invocations, cleaned_response_text, genai_api_key, attempt, last_exception, response, exc,
                   wait_time, calls, sleeps, failures, last_kind>>

\* Lines 40-57: the import cannot have configured the key; an error of
\* configure or GenerativeModel comes before or after the key was set.
InitializeGemini ==
    /\ pc = "init"
    /\ \E o \in InitOutcomes :
          IF o = NoExc
          THEN /\ genai_api_key' = api_key
               /\ pc' = "validate_text"
               /\ UNCHANGED <<result, exc>>
          ELSE IF o.cls = "ImportError"
          THEN /\ ReturnReport(ErrorReport(MsgImportFailed(o)))
               /\ UNCHANGED <<genai_api_key, exc>>
          ELSE /\ genai_api_key' \in {genai_api_key, api_key}
               /\ IF CaughtByExceptException(o)
                  THEN ReturnReport(ErrorReport(MsgInitFailed(o))) /\ UNCHANGED exc
                  ELSE pc' = "raised" /\ exc' = o /\ UNCHANGED result
    /\ UNCHANGED <<Inputs, invocations, cleaned_response_text, attempt, last_exception, response, wait_time, calls, sleeps,
                   failures, last_kind>>

\* Lines 59-62, and the attempt = 0, last_exception = None of lines 116-117.
ValidateTextContent ==
    /\ pc = "validate_text"
    /\ IF TooShort(text_content)
       THEN ReturnReport(ErrorReport(MsgTooShort)) /\ UNCHANGED <<attempt, last_exception>>
       ELSE pc' = "loop" /\ attempt' = 0 /\ last_exception' = NoExc /\ UNCHANGED result
    /\ UNCHANGED <<Inputs, invocations, cleaned_response_text, genai_api_key, response, exc, wait_time, calls, sleeps, failures, last_kind>>

\* while attempt < max_retries
LoopConditionStrict(a, m) == a < m

\* A loop that allows one attempt more.
LoopConditionOneMore(a, m) == a <= m + 1

\* while attempt <= max_retries
LoopCondition(a, m) == a <= m

\* A loop head that leaves the counter alone.
NextAttemptForgotten(a) == a

\* attempt += 1
NextAttempt(a) == a + 1

\* Lines 119-120 and, when the loop ends, 326-329.
WhileAttempt ==
    /\ pc = "loop"
    /\ IF LoopCondition(attempt, max_retries)
       THEN attempt' = NextAttempt(attempt) /\ pc' = "call" /\ UNCHANGED result
       ELSE ReturnReport(ErrorReport(MsgFinal(max_retries, last_exception)))
            /\ UNCHANGED attempt
    /\ UNCHANGED <<Inputs, invocations, cleaned_response_text, genai_api_key, last_exception, response, exc, wait_time, calls,
                   sleeps, failures, last_kind>>

\* Lines 143-147: one call of model.generate_content.
GenerateContent ==
    /\ pc = "call"
    /\ \E o \in ModelOutcomes :
          /\ response' = o
          /\ IF o.t = "raise"
             THEN pc' = "except" /\ exc' = o.exc
             ELSE pc' = "process" /\ UNCHANGED exc
    /\ calls' = calls + 1
    /\ UNCHANGED <<Inputs, invocations, cleaned_response_text, genai_api_key, attempt, last_exception, wait_time, sleeps,
                   failures, last_kind, result>>

\* The kinds of the failed attempts so far, with one more.
NoteFailure(seen, kind) ==
    IF seen = "none" \/ seen = kind THEN kind ELSE "mixed"

\* What the end r of a piece of the loop body does to the state.
Finish(r) ==
    /\ last_exception' = IF r.last = KeepLast THEN last_exception ELSE r.last
    /\ IF r.act = "return"
       THEN /\ ReturnReport(r.result)
            /\ failures' = IF r.kind \in {"Success", "Fallback"}
                           THEN failures ELSE NoteFailure(failures, r.kind)
            /\ last_kind' = r.kind
            /\ UNCHANGED <<wait_time, exc>>
       ELSE IF r.act = "sleep"
       THEN /\ wait_time' = r.wait
            /\ pc' = "sleep"
            /\ failures' = NoteFailure(failures, r.kind)
            /\ last_kind' = r.kind
            /\ UNCHANGED <<result, exc>>
       ELSE /\ exc' = r.exc
            /\ pc' = "except"
            /\ UNCHANGED <<result, wait_time, failures, last_kind>>

\* Lines 149-279.
ProcessResponse ==
    /\ pc = "process"
    /\ \E r \in {TryEnd(response, attempt, max_retries)} : Finish(r)
    /\ cleaned_response_text' =
           IF response.t = "text" /\ response.text # <<>>
           THEN Cleaned(response.text)
           ELSE cleaned_response_text
    /\ UNCHANGED <<Inputs, invocations, genai_api_key, attempt, response, calls, sleeps>>

\* Lines 281-324; an exception the except clause does not catch leaves the
\* function.
HandleException ==
    /\ pc = "except"
    /\ IF CaughtByExceptException(exc)
       THEN \E r \in {ExceptEnd(exc, attempt, max_retries)} : Finish(r)
       ELSE pc' = "raised"
            /\ UNCHANGED <<last_exception, result, wait_time, failures, last_kind, exc>>
    /\ UNCHANGED <<Inputs, invocations, cleaned_response_text, genai_api_key, attempt, response, calls, sleeps>>

\* time.sleep(wait_time), then continue
Sleep ==
    /\ pc = "sleep"
    /\ sleeps' = sleeps + 1
    /\ pc' = "loop"
    /\ UNCHANGED <<Inputs, invocations, cleaned_response_text, genai_api_key, attempt, last_exception, response, exc, wait_time,
                   calls, failures, last_kind, result>>

Next ==
    \/ ValidateApiKey
    \/ CheckPreprocessingError
    \/ InitializeGemini
    \/ ValidateTextContent
    \/ WhileAttempt
    \/ GenerateContent
    \/ ProcessResponse
    \/ HandleException
    \/ Sleep

Spec == Init /\ [][Next]_vars

\* Every network call and every sleep returns: a call that can take a step
\* takes it.
FairSpec == Spec /\ WF_vars(Next)

\* Lines 178-202 alone: the cleaning of one response text.
Sanitize ==
    /\ pc = "clean"
    /\ cleaned_response_text' = Cleaned(response.text)
    /\ pc' = "cleaned"
    /\ UNCHANGED <<Inputs, invocations, genai_api_key, attempt, last_exception, response, exc, wait_time,
                   calls, sleeps, failures, last_kind, result>>

\* generate_content has returned a response with a text, on the first attempt.
SanitizeInit ==
    /\ api_key \in {k \in ApiKeys : ~InvalidApiKey(k)}
    /\ text_content = Rep("x", MinTextLen)
    /\ max_retries = MaxRetries
    /\ pc = "clean"
    /\ genai_api_key = api_key
    /\ attempt = 1
    /\ last_exception = NoExc
    /\ response \in {TextResponse(t) : t \in RawTexts \ {<<>>}}
    /\ cleaned_response_text = <<>>
    /\ invocations = <<>>
    /\ exc = NoExc
    /\ wait_time = 0
    /\ calls = 1
    /\ sleeps = 0
    /\ failures = "none"
    /\ last_kind = "none"
    /\ result = NoResult

SanitizeSpec == SanitizeInit /\ [][Sanitize]_vars

\* ------------------------------------------------ two calls at a time
\* Two threads call the function with credentials of their own, and texts
\* that pass the preflight checks.  genai_api_key is the key of the library
\* module, which genai.configure sets; every other variable of a call is a
\* local of its thread, kept in invocations.
Callers == {1, 2}

\* The model object reads the key when it first needs it.
Lazy == "<lazy>"

\* The variables of the single call, which the two threads leave alone.
SingleCall ==
    <<Inputs, cleaned_response_text, pc, attempt, last_exception, response, exc, wait_time,
      calls, sleeps, failures, last_kind, result>>

\* genai.configure(api_key=api_key)
Configure(p) ==
    /\ invocations[p].pc = "configure"
    /\ genai_api_key' = invocations[p].api_key
    /\ invocations' = [invocations EXCEPT ![p].pc = "create_model"]
    /\ UNCHANGED SingleCall

\* model = genai.GenerativeModel('gemini-1.5-flash'); attempt = 0.  The
\* constructor takes no key: the model has the key of the module, read now or
\* at its first call.
CreateModel(p) ==
    /\ invocations[p].pc = "create_model"
    /\ \E k \in {genai_api_key, Lazy} :
          invocations' = [invocations EXCEPT ![p].pc = "loop", ![p].model_key = k,
                                             ![p].attempt = 0]
    /\ UNCHANGED <<genai_api_key, SingleCall>>

\* while attempt <= max_retries: attempt += 1, and the return after the loop.
ConcurrentWhile(p) ==
    /\ invocations[p].pc = "loop"
    /\ invocations' =
          IF LoopCondition(invocations[p].attempt, MaxRetries)
          THEN [invocations EXCEPT ![p].pc = "call",
                                   ![p].attempt = NextAttempt(invocations[p].attempt)]
          ELSE [invocations EXCEPT ![p].pc = "returned"]
    /\ UNCHANGED <<genai_api_key, SingleCall>>

\* model.generate_content(...) and what follows it in the loop body: the
\* attempt succeeds or fails, and a failed one returns or sleeps.
ConcurrentCall(p) ==
    /\ invocations[p].pc = "call"
    /\ LET key == IF invocations[p].model_key = Lazy
                  THEN genai_api_key ELSE invocations[p].model_key
       IN  \E ok \in BOOLEAN :
              invocations' =
                  [invocations EXCEPT
                      ![p].model_key = key,
                      ![p].call_key = key,
                      ![p].calls = invocations[p].calls + 1,
                      ![p].pc = IF ok \/ RetriesExhausted(invocations[p].attempt, MaxRetries)
                                THEN "returned" ELSE "sleep"]
    /\ UNCHANGED <<genai_api_key, SingleCall>>

\* time.sleep(wait_time); continue
ConcurrentSleep(p) ==
    /\ invocations[p].pc = "sleep"
    /\ invocations' = [invocations EXCEPT ![p].pc = "loop"]
    /\ UNCHANGED <<genai_api_key, SingleCall>>

ConcurrentInit ==
    /\ invocations \in
          [Callers -> [pc : {"configure"}, attempt : {0},
                       api_key : {"AIzaSyA-valid-key", "AIzaSyB-valid-key"},
                       model_key : {Unconfigured}, call_key : {Unconfigured}, calls : {0}]]
    /\ genai_api_key = Unconfigured
    /\ api_key = ""
    /\ text_content = <<>>
    /\ max_retries = MaxRetries
    /\ pc = "threads"
    /\ attempt = 0
    /\ last_exception = NoExc
    /\ response = NoResponse
    /\ cleaned_response_text = <<>>
    /\ exc = NoExc
    /\ wait_time = 0
    /\ calls = 0
    /\ sleeps = 0
    /\ failures = "none"
    /\ last_kind = "none"
    /\ result = NoResult

ConcurrentNext ==
    \E p \in Callers :
        \/ Configure(p)
        \/ CreateModel(p)
        \/ ConcurrentWhile(p)
        \/ ConcurrentCall(p)
        \/ ConcurrentSleep(p)

ConcurrentSpec == ConcurrentInit /\ [][ConcurrentNext]_vars

TypeOK ==
    /\ pc \in {"validate_key", "check_pdf", "init", "validate_text", "loop", "call",
               "process", "except", "sleep", "returned", "raised", "clean", "cleaned",
               "threads"}
    /\ attempt \in 0..(MaxRetries + 1)
    /\ calls \in 0..(MaxRetries + 1)
    /\ sleeps \in 0..MaxRetries

\* ------------------------------------------------------------- the claims
\* How the piece of the loop body at pc ends from the current state.
StepEnd ==
    IF pc = "process" THEN TryEnd(response, attempt, max_retries)
    ELSE ExceptEnd(exc, attempt, max_retries)

RetryableKinds ==
    {"EmptyResponse", "EmptyAfterClean", "InvalidJson", "SchemaViolation", "Quota",
     "Resource", "Generic"}

\* The attempt at pc ends in a retryable failure.
RetryableFailureNow ==
    /\ pc \in {"process", "except"}
    /\ StepEnd.act # "raise"
    /\ StepEnd.kind \in RetryableKinds

ParsingErrorsSet(report) == ~report.parsing_errors.null /\ report.parsing_errors.s # <<>>

\* C1: whatever the credential, the text, max_retries and the outcomes of the
\* attempts, no exception leaves the function: an exception raised in the
\* loop body is handled on its attempt, and a call that ended has returned a
\* report.
C1_NoExceptionEscapes ==
    /\ pc # "raised"
    /\ pc = "except" => CaughtByExceptException(exc)
    /\ pc \notin {"validate_key", "check_pdf", "init", "validate_text", "loop", "call",
                  "process", "except", "sleep"} => pc = "returned"

\* C1 witness: a TypeError of the key check on the last attempt was caught and
\* the call returned a report.
C1_Witness ==
    /\ pc = "returned"
    /\ exc.cls = "TypeError"
    /\ last_kind = "Generic"
    /\ max_retries = 1
    /\ calls = 2

\* C2: the attempt counter changes only at the head of a loop iteration, where
\* it grows by one, and under FairSpec every call reaches a returned report.
C2_AttemptGrowsAndCallReturns ==
    /\ [][/\ (pc = "loop" /\ pc' = "call") => attempt' = attempt + 1
          /\ attempt' # attempt => (pc = "loop" /\ pc' = "call")]_vars
    /\ <>(pc = "returned")

\* C2 witness: a call that used every attempt and every sleep of its budget and
\* returned.
C2_Witness ==
    /\ pc = "returned"
    /\ max_retries = MaxRetries
    /\ attempt = max_retries + 1
    /\ sleeps = max_retries

\* C3: every attempt makes exactly one call of generate_content, and a call
\* never makes more than max_retries + 1 of them (none for a budget below 0).
C3_OneCallPerAttempt ==
    /\ calls = IF pc = "call" THEN attempt - 1 ELSE attempt
    /\ calls <= Max({max_retries + 1, 0})

\* C3 witness: the default max_retries = 2 ended after three calls.
C3_Witness ==
    /\ pc = "returned"
    /\ max_retries = 2
    /\ calls = 3

\* C4 as stated: a retryable failure on attempt n gives up exactly when
\* n > max_retries + 1, and sleeps for every n <= max_retries + 1.
C4_Original ==
    [][RetryableFailureNow =>
          IF attempt > max_retries + 1 THEN pc' = "returned" ELSE pc' = "sleep"]_vars

\* C4 amended: a retryable failure on attempt n gives up (returns the report
\* of the failure) exactly when n > max_retries; for every n <= max_retries it
\* sleeps the wait of its kind once, increments the counter and makes the
\* next attempt.
C4_Amended ==
    [][/\ RetryableFailureNow =>
             IF attempt > max_retries
             THEN pc' = "returned" /\ ParsingErrorsSet(result') /\ sleeps' = sleeps
             ELSE /\ pc' = "sleep"
                  /\ wait_time' \in {QuotaWait, ResourceWait, BackoffBase + attempt,
                                     BackoffBase + (BackoffStep * attempt)}
       /\ pc = "sleep" =>
             /\ attempt <= max_retries
             /\ sleeps' = sleeps + 1 /\ pc' = "loop" /\ attempt' = attempt
       /\ (pc = "loop" /\ sleeps > 0) => (pc' = "call" /\ attempt' = attempt + 1)]_vars

\* C4 witness: every retry was used, the failure on attempt max_retries + 1
\* ended the call.
C4_Witness ==
    /\ pc = "returned"
    /\ last_kind \in RetryableKinds
    /\ max_retries >= 1
    /\ attempt = max_retries + 1
    /\ sleeps = max_retries

\* The trimmed text has fewer than 50 characters.
ShortText == Len(strip(text_content)) < 50

\* C5: for a text of fewer than 50 characters after trimming, whatever the
\* credential and max_retries, the call never reaches the loop, makes no
\* network call and no sleep, and the report it returns has parsing_errors set.
C5_ShortTextNoNetwork ==
    ShortText =>
        /\ pc \in {"validate_key", "check_pdf", "init", "validate_text", "returned"}
        /\ calls = 0 /\ sleeps = 0
        /\ pc = "returned" => ParsingErrorsSet(result)

\* C5 witness: a text of 51 characters, 49 after trimming, was rejected by
\* the length check.
C5_Witness ==
    /\ pc = "returned"
    /\ Len(text_content) > 50
    /\ ShortText
    /\ text_content[2] = "x"
    /\ genai_api_key = api_key
    /\ result.parsing_errors = Some(MsgTooShort)

SentinelText ==
    \/ startswith(text_content, PDF_ERROR_PREFIX)
    \/ startswith(text_content, PREPROCESS_ERROR_PREFIX)

PlaceholderCredential ==
    api_key \in {"", "YOUR_API_KEY_HERE", "YOUR_API_KEY_HERE_FALLBACK"}

\* C6 as stated: for a text that begins with a sentinel prefix, whatever the
\* credential, the report's parsing_errors is that text and no network call
\* is made.
C6_Original ==
    SentinelText =>
        /\ calls = 0
        /\ pc = "returned" => result.parsing_errors = Some(text_content)

\* C6 amended: for a text that begins with a sentinel prefix no network call
\* is made, and when the credential is neither empty nor a placeholder the
\* report's parsing_errors is exactly that text.
C6_Amended ==
    SentinelText =>
        /\ calls = 0 /\ sleeps = 0
        /\ pc \in {"validate_key", "check_pdf", "returned"}
        /\ (pc = "returned" /\ ~PlaceholderCredential) =>
               result.parsing_errors = Some(text_content)

\* C6 witness: a sentinel text long enough to pass the length check came
\* back as parsing_errors.
C6_Witness ==
    /\ pc = "returned"
    /\ startswith(text_content, PREPROCESS_ERROR_PREFIX)
    /\ Len(text_content) > 50
    /\ ~PlaceholderCredential
    /\ result.parsing_errors.s = text_content

\* C7: with an empty or placeholder credential the call returns from the
\* credential check: the library is never configured, no network call, sleep
\* or attempt is made, and the report has parsing_errors set and an empty
\* header and no line items.
C7_PlaceholderCredentialFailsFast ==
    PlaceholderCredential =>
        /\ pc \in {"validate_key", "returned"}
        /\ genai_api_key = Unconfigured
        /\ calls = 0 /\ sleeps = 0 /\ attempt = 0
        /\ pc = "returned" =>
              /\ ParsingErrorsSet(result)
              /\ result.header = JNull
              /\ result.audit_paras = <<>>

\* C7 witness: the fallback placeholder with a text that would pass every
\* other check was rejected.
C7_Witness ==
    /\ pc = "returned"
    /\ api_key = "YOUR_API_KEY_HERE_FALLBACK"
    /\ ~SentinelText
    /\ ~ShortText
    /\ result.parsing_errors = Some(MsgNoKey)

\* The words by which a report names the two kinds of C8.
KindPhrase(kind) ==
    IF kind = "EmptyAfterClean"
    THEN "Gemini response was empty after cleaning on attempt "
    ELSE "Invalid JSON from Gemini (Attempt "

\* C8: when every attempt failed with the same kind, empty after cleaning or
\* invalid JSON, the call made exactly max_retries + 1 attempts and its report
\* has an empty header, no line items and a parsing_errors that names the
\* kind and the attempt number max_retries + 1.
C8_SameFailureEveryAttempt ==
    (/\ pc = "returned"
     /\ last_kind \in {"EmptyAfterClean", "InvalidJson"}
     /\ failures = last_kind) =>
        /\ calls = max_retries + 1
        /\ attempt = max_retries + 1
        /\ result.header = JNull
        /\ result.audit_paras = <<>>
        /\ ~result.parsing_errors.null
        /\ result.parsing_errors.s[1] = KindPhrase(last_kind)
        /\ result.parsing_errors.s[2] = ToString(max_retries + 1)

\* C8 witness: max_retries = 1 and "not json" both times gave two attempts.
C8_Witness ==
    /\ pc = "returned"
    /\ max_retries = 1
    /\ response = TextResponse(Reply.NOT_JSON)
    /\ failures = "InvalidJson"
    /\ last_kind = "InvalidJson"
    /\ calls = 2

\* C9 as stated: a raised error whose text contains "billing", whatever else
\* it contains, ends the call on that attempt with the billing message.
C9_BillingIsTerminal ==
    [][(pc = "except" /\ contains(lower(exc.msg), KW_BILLING)) =>
          (pc' = "returned" /\ result'.parsing_errors = Some(MsgBilling))]_vars

\* C10 as stated: a raised error whose text contains "api_key" or "auth",
\* whatever else it contains, ends the call on that attempt with the
\* authentication message.
C10_AuthIsTerminal ==
    [][(/\ pc = "except"
        /\ \/ contains(lower(exc.msg), lower(KW_API_KEY))
           \/ contains(lower(exc.msg), KW_AUTH)) =>
          (pc' = "returned" /\ result'.parsing_errors = Some(MsgAuth))]_vars

\* C11: an error whose text contains "quota", raised on an attempt that is
\* not the last permitted one, does not end the call: the call sleeps exactly
\* 30 seconds whatever the attempt number, and after the sleep goes back to
\* the loop head and makes the next attempt.
C11_QuotaSleepsThirtyAndRetries ==
    [][/\ (/\ pc = "except"
           /\ contains(lower(exc.msg), KW_QUOTA)
           /\ attempt <= max_retries) =>
             (pc' = "sleep" /\ wait_time' = 30 /\ result' = result)
       /\ (pc = "sleep" /\ last_kind = "Quota") =>
             (pc' = "loop" /\ sleeps' = sleeps + 1 /\ attempt' = attempt)
       /\ (pc = "loop" /\ last_kind = "Quota") =>
             (pc' = "call" /\ attempt' = attempt + 1)]_vars

\* C11 witness: quota errors on attempts 1 and 2 were each followed by a sleep
\* of 30 seconds, and the third attempt is being made.
C11_Witness ==
    /\ pc = "call"
    /\ attempt = 3
    /\ sleeps = 2
    /\ failures = "Quota"
    /\ wait_time = 30
    /\ contains(lower(exc.msg), KW_QUOTA)

\* C12 as stated: an error whose text contains "resource_exhausted" in any
\* letter case, raised on an attempt that is not the last permitted one, is
\* followed by a sleep of 60 seconds whatever the attempt number.
C12_ResourceSleepsSixty ==
    [][(/\ pc = "except"
        /\ contains(upper(exc.msg), KW_RESOURCE_EXHAUSTED)
        /\ attempt <= max_retries) =>
          (pc' = "sleep" /\ wait_time' = 60)]_vars

\* C13 as stated: when an attempt ends in one of the four soft failure kinds
\* and the call goes to sleep, the wait is exactly 5 + 2 * attempt seconds,
\* attempt being the 1-based number of the attempt that just failed.
C13_SoftFailureBackoff ==
    [][(/\ pc' = "sleep"
        /\ pc # "sleep"
        /\ last_kind' \in {"EmptyResponse", "EmptyAfterClean",
                           "InvalidJson", "SchemaViolation"}) =>
          wait_time' = 5 + (2 * attempt)]_vars

\* C14 as stated: the kind under which a raised error is handled is decided
\* by its text alone, by case-insensitive substring, and every text that
\* contains the keyword of a kind is handled as that kind: "quota" or "rate"
\* as a quota error, "billing" as a billing error, "api_key" or "auth" as an
\* authentication error, "resource_exhausted" as a resource error, and a text
\* with none of the keywords as a generic error.
C14_ClassifiedByEveryKeyword ==
    [][pc = "except" =>
          LET text == lower(exc.msg)
              quota == contains(text, KW_QUOTA) \/ contains(text, KW_RATE)
              billing == contains(text, KW_BILLING)
              auth == contains(text, lower(KW_API_KEY)) \/ contains(text, KW_AUTH)
              resource == contains(text, lower(KW_RESOURCE_EXHAUSTED))
          IN  /\ quota => last_kind' = "Quota"
              /\ billing => last_kind' = "Billing"
              /\ auth => last_kind' = "Auth"
              /\ resource => last_kind' = "Resource"
              /\ ~(quota \/ billing \/ auth \/ resource) => last_kind' = "Generic"]_vars

\* C15 as stated: the cleaning trims the text, removes the first leading
\* marker that matches of '''json, ''' and ', removes one trailing marker,
\* ''' before ', and trims again: the text handed to json.loads is what lies
\* between, without leading or trailing white space.
C15_OneMarkerEachSideAndTrimmed ==
    pc = "cleaned" =>
        LET text == strip(response.text)
            opened == IF startswith(text, FENCE_JSON) THEN DropFirst(text, 7)
                      ELSE IF startswith(text, FENCE) THEN DropFirst(text, 3)
                      ELSE IF startswith(text, TICK) THEN DropFirst(text, 1)
                      ELSE text
            closed == IF endswith(opened, FENCE) THEN DropLast(opened, 3)
                      ELSE IF endswith(opened, TICK) THEN DropLast(opened, 1)
                      ELSE opened
        IN  /\ cleaned_response_text = strip(closed)
            /\ strip(cleaned_response_text) = cleaned_response_text

\* C16: cleaning a text that is already clean - not empty, no white space at
\* either end, no back-tick (so no fence marker) at either end - changes
\* nothing: the cleaned text equals the response text.
C16_CleanTextUnchanged ==
    (/\ pc = "cleaned"
     /\ response.text # <<>>
     /\ strip(response.text) = response.text
     /\ ~startswith(response.text, TICK)
     /\ ~endswith(response.text, TICK)) =>
        cleaned_response_text = response.text

\* C16 witness: a clean text with a back-tick inside only has been cleaned
\* and is unchanged.
C16_Witness ==
    /\ pc = "cleaned"
    /\ response.text = <<"{", "}", BT, "{", "}">>
    /\ cleaned_response_text = response.text

\* C17 as stated: a text without white space at either end, wrapped by a
\* '''json line before it and a ''' line after it, is cleaned back to the
\* text itself.
C17_FenceWrapRoundTrip ==
    LET before == FENCE_JSON \o <<"\n">>
        after == <<"\n">> \o FENCE
        json_str == DropLast(DropFirst(response.text, Len(before)), Len(after))
    IN  (/\ pc = "cleaned"
         /\ Len(response.text) >= Len(before) + Len(after)
         /\ response.text = before \o json_str \o after
         /\ strip(json_str) = json_str) =>
            cleaned_response_text = json_str

\* C18 as stated: a response text that is not empty, but of which nothing
\* remains once the fence markers are removed and white space is trimmed,
\* ends the attempt as empty after cleaning, not as an empty response or as
\* invalid JSON; json.loads is not reached.
C18_NothingLeftIsEmptyAfterClean ==
    [][(/\ pc = "process"
        /\ response.t = "text"
        /\ response.text # <<>>
        /\ strip(RemoveSuffix(RemovePrefix(strip(response.text)))) = <<>>) =>
          last_kind' = "EmptyAfterClean"]_vars

\* C19: a response that parses as a JSON object lacking "header",
\* "audit_paras" or both never gives a report without parsing_errors; and
\* when the values it does provide are ones the report accepts, the attempt
\* returns a report whose header and audit_paras are the provided values
\* where the key was present, the empty object and the empty array where it
\* was missing, with parsing_errors set - so a response missing "header" only
\* gives an empty header and the provided array.
C19_MissingKeysSynthesized ==
    [][(pc = "process" /\ response.t = "text" /\ response.text # <<>>) =>
          LET parsed == json_loads(Cleaned(response.text))
              obj == parsed.v.obj
              has_header == KEY_HEADER \in DOMAIN obj
              has_paras == KEY_AUDIT_PARAS \in DOMAIN obj
              accepted ==
                  /\ has_header => obj[KEY_HEADER].t = "null" \/ ScalarFields(obj[KEY_HEADER])
                  /\ has_paras =>
                        /\ obj[KEY_AUDIT_PARAS].t = "arr"
                        /\ \A i \in 1..Len(obj[KEY_AUDIT_PARAS].items) :
                              ScalarFields(obj[KEY_AUDIT_PARAS].items[i])
          IN  (parsed.ok /\ parsed.v.t = "obj" /\ ~(has_header /\ has_paras)) =>
                 /\ pc' = "returned" => ParsingErrorsSet(result')
                 /\ accepted =>
                       /\ pc' = "returned"
                       /\ last_kind' = "Fallback"
                       /\ result'.header = IF has_header THEN obj[KEY_HEADER] ELSE EmptyDict
                       /\ result'.audit_paras =
                             IF has_paras THEN obj[KEY_AUDIT_PARAS].items ELSE <<>>]_vars

\* C19 witness: a response with "audit_paras" and no "header" gave a report
\* with an empty header, the one provided paragraph and parsing_errors set.
C19_Witness ==
    /\ pc = "returned"
    /\ last_kind = "Fallback"
    /\ response.text = Reply.NO_HEADER
    /\ result.header = EmptyDict
    /\ Len(result.audit_paras) = 1
    /\ ParsingErrorsSet(result)

\* The response being processed parses as a JSON object with "header" and
\* "audit_paras" whose values, and whose "parsing_errors" if it has one, the
\* report accepts.
FullResponse ==
    /\ pc = "process"
    /\ response.t = "text"
    /\ response.text # <<>>
    /\ LET parsed == json_loads(Cleaned(response.text))
           obj == parsed.v.obj
       IN  /\ parsed.ok
           /\ parsed.v.t = "obj"
           /\ KEY_HEADER \in DOMAIN obj
           /\ KEY_AUDIT_PARAS \in DOMAIN obj
           /\ obj[KEY_HEADER].t = "null" \/ ScalarFields(obj[KEY_HEADER])
           /\ obj[KEY_AUDIT_PARAS].t = "arr"
           /\ \A i \in 1..Len(obj[KEY_AUDIT_PARAS].items) :
                 ScalarFields(obj[KEY_AUDIT_PARAS].items[i])
           /\ KEY_PARSING_ERRORS \in DOMAIN obj =>
                 obj[KEY_PARSING_ERRORS].t \in {"null", "str"}

\* The header and audit_paras of the report returned are those of the
\* response being processed.
MappedReport ==
    LET obj == json_loads(Cleaned(response.text)).v.obj
    IN  /\ pc' = "returned"
        /\ result'.header = obj[KEY_HEADER]
        /\ result'.audit_paras = obj[KEY_AUDIT_PARAS].items

\* C20 as stated: a response that parses as an object with both keys and is
\* accepted gives a report with the mapped header and audit_paras and
\* parsing_errors None; a returned success carries a parsing_errors only when
\* the fallback was taken.
C20_Original ==
    [][/\ FullResponse => (MappedReport /\ result'.parsing_errors = None)
       /\ (pc' = "returned" /\ last_kind' \in {"Success", "Fallback"}
           /\ result'.parsing_errors # None) => last_kind' = "Fallback"]_vars

\* C20 amended: such a response gives a report with the mapped header and
\* audit_paras whose parsing_errors is the string of the response's own
\* "parsing_errors" key, None when the key is absent or null; a returned
\* success carries a parsing_errors only when the fallback was taken or the
\* response supplied one itself.
C20_Amended ==
    [][/\ FullResponse =>
             LET obj == json_loads(Cleaned(response.text)).v.obj
                 own == IF KEY_PARSING_ERRORS \in DOMAIN obj
                        THEN obj[KEY_PARSING_ERRORS] ELSE JNull
             IN  /\ MappedReport
                 /\ last_kind' = "Success"
                 /\ result'.parsing_errors = IF own.t = "str" THEN Some(own.s) ELSE None
       /\ (pc' = "returned" /\ last_kind' \in {"Success", "Fallback"}
           /\ result'.parsing_errors # None) =>
             \/ last_kind' = "Fallback"
             \/ /\ FullResponse
                /\ json_loads(Cleaned(response.text)).v.obj[KEY_PARSING_ERRORS].t = "str"]_vars

\* C20 witness: a response with both keys and its own "parsing_errors" was
\* returned as a success that carries that string.
C20_Witness ==
    /\ pc = "returned"
    /\ last_kind = "Success"
    /\ response.text = Reply.OWN_ERRORS
    /\ result.header = EmptyDict
    /\ result.audit_paras = <<>>
    /\ result.parsing_errors = Some(<<"u", "n", "c", "l", "e", "a", "r">>)

\* C21: every report returned otherwise than by a full success - from a
\* preflight check, a failed initialisation, a billing or authentication
\* error, the last attempt's failure, the end of the loop or the fallback -
\* has a parsing_errors that is neither None nor empty.
C21_FailureCarriesParsingErrors ==
    (pc = "returned" /\ last_kind # "Success") => ParsingErrorsSet(result)

\* C21 witness: after two failed attempts the third ended in invalid JSON and
\* the report returned carries the message of that attempt.
C21_Witness ==
    /\ pc = "returned"
    /\ last_kind = "InvalidJson"
    /\ attempt = 3
    /\ sleeps = 2
    /\ result.parsing_errors = Some(MsgInvalidJson(3, Exc("JSONDecodeError", ErrMsg.JSON_DECODE)))

\* C22 as stated: when the response of the last attempt parses as a JSON
\* object and the call returns because the construction of the report failed
\* or a key was missing, the report keeps what was usable - a header of scalar
\* fields, an array of paragraphs of scalar fields - and has parsing_errors
\* set.
C22_PartialResultsPreserved ==
    [][(/\ pc = "process" /\ response.t = "text" /\ response.text # <<>>
        /\ json_loads(Cleaned(response.text)).ok
        /\ json_loads(Cleaned(response.text)).v.t = "obj"
        /\ pc' = "returned"
        /\ last_kind' \in {"SchemaViolation", "Fallback"}) =>
          LET obj == json_loads(Cleaned(response.text)).v.obj
              usable_header == KEY_HEADER \in DOMAIN obj /\ ScalarFields(obj[KEY_HEADER])
              usable_paras ==
                  /\ KEY_AUDIT_PARAS \in DOMAIN obj
                  /\ obj[KEY_AUDIT_PARAS].t = "arr"
                  /\ \A i \in 1..Len(obj[KEY_AUDIT_PARAS].items) :
                        ScalarFields(obj[KEY_AUDIT_PARAS].items[i])
          IN  /\ ParsingErrorsSet(result')
              /\ usable_header => result'.header = obj[KEY_HEADER]
              /\ usable_paras => result'.audit_paras = obj[KEY_AUDIT_PARAS].items]_vars

\* C23 as stated: of two calls running at the same time, each has an attempt
\* counter that only its own steps change, and each makes every network call
\* with its own credential: the key an invocation's call was made with is the
\* key that invocation was given, whatever the other one configured.
C23_InvocationsShareNothing ==
    [][\A p \in Callers :
          /\ invocations'[p].attempt # invocations[p].attempt =>
                /\ invocations[p].pc \in {"create_model", "loop"}
                /\ \A q \in Callers \ {p} : invocations'[q] = invocations[q]
          /\ invocations'[p].call_key \in {Unconfigured, invocations[p].api_key}]_vars

\* C24: a response that parses as a JSON object lacking "header" or
\* "audit_paras" ends the call on its own attempt when the report accepts the
\* patched object - a return with no sleep and no call after it; when the
\* report rejects it, the attempt ends as a schema violation, which sleeps
\* 5 + 2 * attempt and retries while the budget lasts.
C24_FallbackConsumesNoRetry ==
    [][/\ (pc = "process" /\ response.t = "text" /\ response.text # <<>>) =>
             LET parsed == json_loads(Cleaned(response.text))
                 obj == parsed.v.obj
                 has_header == KEY_HEADER \in DOMAIN obj
                 has_paras == KEY_AUDIT_PARAS \in DOMAIN obj
                 accepted ==
                     /\ has_header =>
                           obj[KEY_HEADER].t = "null" \/ ScalarFields(obj[KEY_HEADER])
                     /\ has_paras =>
                           /\ obj[KEY_AUDIT_PARAS].t = "arr"
                           /\ \A i \in 1..Len(obj[KEY_AUDIT_PARAS].items) :
                                 ScalarFields(obj[KEY_AUDIT_PARAS].items[i])
             IN  (parsed.ok /\ parsed.v.t = "obj" /\ ~(has_header /\ has_paras)) =>
                    IF accepted
                    THEN /\ pc' = "returned"
                         /\ last_kind' = "Fallback"
                         /\ attempt' = attempt /\ calls' = calls /\ sleeps' = sleeps
                    ELSE /\ last_kind' = "SchemaViolation"
                         /\ pc' = IF attempt <= max_retries THEN "sleep" ELSE "returned"
                         /\ attempt <= max_retries => wait_time' = 5 + (2 * attempt)
       /\ pc = "returned" => (calls' = calls /\ sleeps' = sleeps)]_vars

\* C24 witness: the second attempt's response lacked "audit_paras" and the
\* call returned on it, after the one sleep that followed the first attempt.
C24_Witness ==
    /\ pc = "returned"
    /\ last_kind = "Fallback"
    /\ response.text = Reply.NO_PARAS
    /\ attempt = 2
    /\ calls = 2
    /\ sleeps = 1
    /\ max_retries = 2

\* C25: the call never sleeps after its last attempt: when it has returned,
\* it has slept once less than it has called generate_content, and not at all
\* when it made no call; with max_retries = 0 it never sleeps.
C25_NoSleepAfterLastAttempt ==
    /\ pc = "returned" => sleeps = (IF calls >= 1 THEN calls - 1 ELSE 0)
    /\ max_retries = 0 => sleeps = 0

\* C25 witness: a billing error ended the call on its second attempt, after
\* one sleep.
C25_Witness ==
    /\ pc = "returned"
    /\ last_kind = "Billing"
    /\ calls = 2
    /\ sleeps = 1

\* C26: the return after the loop, whose message begins "Gemini API failed
\* after", is reached only with a negative max_retries: no network call and
\* no sleep was made, and the message reports a last error of None.  With
\* max_retries >= 0 the loop head always starts an attempt, and a call that
\* has made an attempt returns from inside the loop.
C26_PostLoopReturnOnlyForNegativeBudget ==
    /\ (/\ pc = "returned"
        /\ ~result.parsing_errors.null
        /\ Len(result.parsing_errors.s) >= 1
        /\ result.parsing_errors.s[1] = "Gemini API failed after ") =>
          /\ max_retries < 0
          /\ calls = 0 /\ sleeps = 0 /\ attempt = 0
          /\ result.parsing_errors.s =
                <<"Gemini API failed after ", ToString(max_retries + 1),
                  " attempts. Last error: ", "N", "o", "n", "e",
                  "... Try again in a few minutes (free tier rate limits).">>
    /\ (pc = "loop" /\ max_retries >= 0) => attempt <= max_retries

\* C26 witness: max_retries = -1 with a valid credential and text returned
\* from the end of the loop without a call.
C26_Witness ==
    /\ pc = "returned"
    /\ max_retries = -1
    /\ genai_api_key = api_key
    /\ calls = 0
    /\ result.parsing_errors.s[1] = "Gemini API failed after "
    /\ result.parsing_errors.s[2] = "0"

\* C27: the first preflight check that fails decides the report.  A
\* placeholder credential gives the credential message, whatever the text; a
\* text with a sentinel prefix is otherwise returned as it is, however short,
\* before the library is configured; a failed initialisation returns its own
\* message without a network call, whatever the length of the text; and only
\* then is a short text reported as too short.
C27_FirstFailingPreflightCheckDecides ==
    [][/\ pc' = "returned" =>
             IF PlaceholderCredential
             THEN result'.parsing_errors = Some(MsgNoKey) /\ genai_api_key' = Unconfigured
             ELSE IF SentinelText
             THEN result'.parsing_errors = Some(text_content) /\ genai_api_key' = Unconfigured
             ELSE ShortText =>
                     /\ calls' = 0 /\ attempt' = 0
                     /\ \/ result'.parsing_errors = Some(MsgTooShort)
                        \/ result'.parsing_errors.s[1] \in
                              {"Failed to import Gemini library: ", "Failed to initialize Gemini: "}
       /\ (pc = "init" /\ pc' = "returned") =>
             /\ calls' = 0 /\ sleeps' = 0 /\ attempt' = 0
             /\ result'.parsing_errors.s[1] \in
                   {"Failed to import Gemini library: ", "Failed to initialize Gemini: "}]_vars

\* C27 witness: with a valid credential and a text too short to be analysed,
\* the initialisation failed and its message was returned, not the length
\* message.
C27_Witness ==
    /\ pc = "returned"
    /\ ~PlaceholderCredential
    /\ ~SentinelText
    /\ ShortText
    /\ calls = 0
    /\ result.parsing_errors.s[1] = "Failed to initialize Gemini: "

\* The response being handled is a text that parses as JSON but not as an
\* object.
NonObjectJson ==
    /\ response.t = "text"
    /\ response.text # <<>>
    /\ json_loads(Cleaned(response.text)).ok
    /\ json_loads(Cleaned(response.text)).v.t # "obj"

\* The attempt ends as kind: it sleeps 5 + 2 * attempt and retries while the
\* budget lasts, and on the last attempt returns a report with parsing_errors
\* set, no header and no paragraphs.
RetriedThenEmptyReport(kind) ==
    /\ last_kind' = kind
    /\ IF attempt <= max_retries
       THEN pc' = "sleep" /\ wait_time' = 5 + (2 * attempt)
       ELSE /\ pc' = "returned"
            /\ ParsingErrorsSet(result')
            /\ result'.header = JNull
            /\ result'.audit_paras = <<>>

\* C28 as stated: a response that is valid JSON but not an object raises in
\* the key check, is handled by the generic branch of the except clause, is
\* retried with the generic wait and on the last attempt gives an empty
\* report with parsing_errors; it never gives a success and no exception
\* escapes.
C28_Original ==
    [][/\ (pc = "process" /\ NonObjectJson) => (pc' = "except" /\ exc'.cls = "TypeError")
       /\ (pc = "except" /\ NonObjectJson /\ exc.cls = "TypeError") =>
             RetriedThenEmptyReport("Generic")
       /\ (pc' = "returned" /\ NonObjectJson) => last_kind' \notin {"Success", "Fallback"}
       /\ pc' # "raised"]_vars

\* C28 amended: such a response is handled by the generic branch, except
\* when it is a string or an array that contains both key names: then the key
\* check passes and the construction's except clause handles it as a
\* validation error, with the same wait and the same empty report.
C28_Amended ==
    [][/\ (pc = "process" /\ NonObjectJson) =>
             LET v == json_loads(Cleaned(response.text)).v
                 names(key) == IF v.t = "str" THEN contains(v.s, key)
                               ELSE v.t = "arr" /\ \E i \in 1..Len(v.items) :
                                                      v.items[i] = JStr(key)
             IN  IF names(KEY_HEADER) /\ names(KEY_AUDIT_PARAS)
                 THEN RetriedThenEmptyReport("SchemaViolation")
                 ELSE pc' = "except" /\ exc'.cls = "TypeError"
       /\ (pc = "except" /\ NonObjectJson /\ exc.cls = "TypeError") =>
             RetriedThenEmptyReport("Generic")
       /\ (pc' = "returned" /\ NonObjectJson) => last_kind' \notin {"Success", "Fallback"}
       /\ pc' # "raised"]_vars

\* C28 witness: the JSON array [] on the last attempt of two was handled by
\* the generic branch and gave an empty report with parsing_errors.
C28_Witness ==
    /\ pc = "returned"
    /\ response.text = Reply.ARRAY
    /\ exc.cls = "TypeError"
    /\ last_kind = "Generic"
    /\ attempt = 2
    /\ sleeps = 1
    /\ result.header = JNull
    /\ ParsingErrorsSet(result)

\* C29: a raised error whose text holds none of the words quota, rate,
\* billing, api_key, auth, resource_exhausted, in any letter case, never ends
\* the call before the budget is spent: on attempt n <= max_retries the call
\* sleeps 5 + 2 * n seconds and makes the next attempt, and on attempt
\* max_retries + 1 it returns a report whose parsing_errors names the attempt
\* number and the class of the error.
C29_GenericErrorIsRetried ==
    [][/\ (/\ pc = "except"
           /\ \A w \in {KW_QUOTA, KW_RATE, KW_BILLING, lower(KW_API_KEY), KW_AUTH,
                        lower(KW_RESOURCE_EXHAUSTED)} : ~contains(lower(exc.msg), w)) =>
             /\ last_kind' = "Generic"
             /\ IF attempt <= max_retries
                THEN pc' = "sleep" /\ wait_time' = 5 + (2 * attempt) /\ result' = result
                ELSE /\ pc' = "returned"
                     /\ attempt = max_retries + 1
                     /\ ~result'.parsing_errors.null
                     /\ result'.parsing_errors.s[2] = ToString(max_retries + 1)
                     /\ result'.parsing_errors.s[4] = exc.cls
       /\ (pc = "sleep" /\ last_kind = "Generic") =>
             (pc' = "loop" /\ sleeps' = sleeps + 1 /\ attempt' = attempt)
       /\ (pc = "loop" /\ last_kind = "Generic") =>
             (pc' = "call" /\ attempt' = attempt + 1)]_vars

\* C29 witness: a timeout on each of three attempts was retried after 7 and 9
\* seconds and reported as the API error of attempt 3.
C29_Witness ==
    /\ pc = "returned"
    /\ last_kind = "Generic"
    /\ failures = "Generic"
    /\ exc.msg = ErrText.TIMEOUT
    /\ attempt = 3
    /\ sleeps = 2
    /\ wait_time = 9
    /\ result.parsing_errors.s[2] = "3"
    /\ result.parsing_errors.s[4] = "ApiError"

\* C30: the report of a successful attempt is decided by that attempt's
\* response and number alone: its header and paragraphs are those of the
\* response (the empty object and array for a missing key), and its
\* parsing_errors is the missing-keys note of this attempt, or the response's
\* own, or None - whatever attempts failed before it, and with nothing of
\* their errors in it.
C30_SuccessIndependentOfEarlierFailures ==
    (pc = "returned" /\ last_kind \in {"Success", "Fallback"}) =>
        LET obj == json_loads(Cleaned(response.text)).v.obj
            has_header == KEY_HEADER \in DOMAIN obj
            has_paras == KEY_AUDIT_PARAS \in DOMAIN obj
            own == IF KEY_PARSING_ERRORS \in DOMAIN obj THEN obj[KEY_PARSING_ERRORS] ELSE JNull
        IN  /\ result.header = IF has_header THEN obj[KEY_HEADER] ELSE EmptyDict
            /\ result.audit_paras = IF has_paras THEN obj[KEY_AUDIT_PARAS].items ELSE <<>>
            /\ result.parsing_errors =
                  IF ~(has_header /\ has_paras)
                  THEN Some(<<"Gemini response missing required keys (Attempt ",
                              ToString(attempt), "). Using fallback structure.">>)
                  ELSE IF own.t = "str" THEN Some(own.s) ELSE None

\* C30 witness: the third attempt succeeded after two failures of different
\* kinds, and its report has no parsing_errors.
C30_Witness ==
    /\ pc = "returned"
    /\ last_kind = "Success"
    /\ failures = "mixed"
    /\ attempt = 3
    /\ last_exception # NoExc
    /\ response.text = Reply.OK
    /\ result.parsing_errors = None

====
